---- MODULE Spec2Model ----
(***************************************************************************)
(* Control flow of the two trainers of ivangoldov/autoencoder:             *)
(*   src/src/training/train_autoencoder.py  (train_autoencoder, main)      *)
(*   src/src/training/train_classifier.py   (train_classifier, main)       *)
(* One run of one trainer is modelled.  The framework objects (dataset,    *)
(* loader, model, optimizer, wandb) are modelled by the calls made on      *)
(* them, recorded in order in `calls`, and by the little state the loops   *)
(* depend on: parameter versions, the accumulated gradient, the loss       *)
(* variables.                                                              *)
(***************************************************************************)
EXTENDS Integers, Sequences, FiniteSets, TLC

\* ---------------------------------------------------------------- bounds
MaxEpochs == 2
MaxBatches == 2
MaxLoss == 2

\* ---------------------------------------------------------------- values
Trainers == {"autoencoder", "classifier"}

\* Python's None, for the Optional[str] parameters.
None == "None"

\* The values an Optional[str] parameter takes: None, the empty string, a
\* non-empty string.
OptionalStr == {None, "", "user"}

\* Truth value of an Optional[str] in `if x:`.
Truthy(s) == s # None /\ s # ""

\* loss.item() of a batch: a float, abstracted to a small positive integer.
Losses == 1..MaxLoss

\* A float that results from int/float arithmetic, kept as an exact fraction
\* <<numerator, denominator>>.
Rat(n, d) == <<n, d>>

RatAdd(r, x) == Rat(r[1] + x * r[2], r[2])

RatDiv(r, n) == Rat(r[1], r[2] * n)

\* One call on a framework object, at epoch e and batch b (-1: outside the loops).
Event(op, e, b) == [op |-> op, epoch |-> e, batch |-> b]

\* ---------------------------------------------------------------- state
VARIABLES
    trainer,      \* which trainer runs
    entry,        \* "main": through main(); "call": the train function called directly
    epochs,       \* parameter epochs
    numBatches,   \* len(train_loader)
    to_evaluate,  \* parameter to_evaluate
    wandb_login,  \* parameter wandb_login
    save_path,    \* parameter save_path
    pc,           \* position in the code
    readIdx,      \* main(): index of the next args[...] lookup
    setupIdx,     \* index of the next setup statement
    epoch,        \* loop variable of `for epoch in range(epochs)`; -1 while unbound
    batch,        \* index of the batch `for batch in train_loader` holds; -1 before the first
    loss,         \* local variable loss: <<>> while unbound, <<v>> once assigned
    epoch_loss,   \* train_classifier's local epoch_loss, a fraction
    grad,         \* .grad of the optimizer's parameters: the batches accumulated in it
    applied,      \* the gradient the last optimizer.step() applied
    params,       \* per module, how many times its parameters were updated
    printed,      \* the last value print() wrote: <<>> or <<fraction>>
    logged,       \* the last value handed to wandb.log: <<>> or <<fraction>>
    epochLosses,  \* history: the loss.item() values added to epoch_loss in this epoch
    calls,        \* history: the calls made so far, in order
    err           \* "none", or the exception that ended the run

vars == <<trainer, entry, epochs, numBatches, to_evaluate, wandb_login, save_path,
          pc, readIdx, setupIdx, epoch, batch, loss, epoch_loss, grad, applied,
          params, printed, logged, epochLosses, calls, err>>

inputs == <<trainer, entry, epochs, numBatches, to_evaluate, wandb_login, save_path>>

\* ---------------------------------------------------------------- main()

\* The options add_training_arguments declares: the keys both mains read for
\* the parameters of the train functions.
TrainingArguments ==
    {"epochs", "lr", "train_batch_size", "test_batch_size", "to_evaluate",
     "wandb_login", "save_path", "seed"}

\* The keys the parser of main() declares.
DeclaredArguments(t) ==
    IF t = "classifier"
    THEN TrainingArguments \cup {"autoencoder_model_path"}
    ELSE TrainingArguments

\* The keys main() reads from args, in evaluation order.
ReadArguments(t) ==
    IF t = "classifier"
    THEN <<"path", "epochs", "lr", "train_batch_size", "test_batch_size",
           "to_evaluate", "wandb_login", "save_path", "seed">>
    ELSE <<"epochs", "lr", "train_batch_size", "test_batch_size",
           "to_evaluate", "wandb_login", "save_path", "seed">>

\* ---------------------------------------------------------------- setup

\* Mutant of SetupSteps: the optimizer is constructed before the model.
SetupStepsOptimizerFirst(t) ==
    IF t = "autoencoder"
    THEN <<"seed", "dataset", "loader", "optimizer", "model", "criterion",
           "wandb_init">>
    ELSE <<"seed", "optimizer", "model", "encoder_to", "dataset", "loader",
           "wandb_init", "criterion">>

\* The setup statements of each train function, in program order.
SetupSteps(t) ==
    IF t = "autoencoder"
    THEN <<"seed", "dataset", "loader", "model", "optimizer", "criterion",
           "wandb_init">>
    ELSE <<"seed", "model", "encoder_to", "dataset", "loader", "wandb_init",
           "optimizer", "criterion">>

\* The modules whose parameters exist during the run.
Modules(t) ==
    IF t = "autoencoder" THEN {"autoencoder"} ELSE {"encoder", "classifier"}

\* Mutant of OptimizerParams: the optimizer is given every module's parameters.
OptimizerParamsAll(t) == Modules(t)

\* The modules whose parameters the optimizer was constructed over.
OptimizerParams(t) ==
    IF t = "autoencoder" THEN {"autoencoder"} ELSE {"classifier"}

Init ==
    /\ trainer \in Trainers
    /\ entry \in {"main", "call"}
    /\ epochs \in 0..MaxEpochs
    /\ numBatches \in 0..MaxBatches
    /\ to_evaluate \in BOOLEAN
    /\ wandb_login \in OptionalStr
    /\ save_path \in OptionalStr
    /\ pc = IF entry = "main" THEN "main" ELSE "setup"
    /\ readIdx = 1
    /\ setupIdx = 1
    /\ epoch = -1
    /\ batch = -1
    /\ loss = <<>>
    /\ epoch_loss = Rat(0, 1)
    /\ grad = <<>>
    /\ applied = <<>>
    /\ params = [m \in Modules(trainer) |-> 0]
    /\ printed = <<>>
    /\ logged = <<>>
    /\ epochLosses = <<>>
    /\ calls = <<>>
    /\ err = "none"

\* args[key] in main(): fails when the parser declared no such key.
MainLookup ==
    /\ pc = "main"
    /\ readIdx <= Len(ReadArguments(trainer))
    /\ IF ReadArguments(trainer)[readIdx] \in DeclaredArguments(trainer)
       THEN /\ readIdx' = readIdx + 1
            /\ UNCHANGED <<pc, err>>
       ELSE /\ pc' = "error"
            /\ err' = "KeyError"
            /\ UNCHANGED readIdx
    /\ UNCHANGED <<inputs, setupIdx, epoch, batch, loss, epoch_loss, grad, applied,
                   params, printed, logged, epochLosses, calls>>

\* main() calls the train function once every argument is evaluated.
MainCall ==
    /\ pc = "main"
    /\ readIdx > Len(ReadArguments(trainer))
    /\ pc' = "setup"
    /\ UNCHANGED <<inputs, readIdx, setupIdx, epoch, batch, loss, epoch_loss, grad,
                   applied, params, printed, logged, epochLosses, calls, err>>

\* One setup statement other than the wandb block.
Construct ==
    /\ pc = "setup"
    /\ setupIdx <= Len(SetupSteps(trainer))
    /\ SetupSteps(trainer)[setupIdx] # "wandb_init"
    /\ calls' = Append(calls, Event(SetupSteps(trainer)[setupIdx], -1, -1))
    /\ setupIdx' = setupIdx + 1
    /\ UNCHANGED <<inputs, pc, readIdx, epoch, batch, loss, epoch_loss, grad, applied,
                   params, printed, logged, epochLosses, err>>

\* if wandb_login: wandb.init(...); wandb.config = {...}
ShouldInit(login) == Truthy(login)

WandbInit ==
    /\ pc = "setup"
    /\ setupIdx <= Len(SetupSteps(trainer))
    /\ SetupSteps(trainer)[setupIdx] = "wandb_init"
    /\ calls' = IF ShouldInit(wandb_login)
                THEN Append(calls, Event("wandb_init", -1, -1))
                ELSE calls
    /\ setupIdx' = setupIdx + 1
    /\ UNCHANGED <<inputs, pc, readIdx, epoch, batch, loss, epoch_loss, grad, applied,
                   params, printed, logged, epochLosses, err>>

\* with tqdm(...) as bar: the epoch loop is entered.
EnterLoop ==
    /\ pc = "setup"
    /\ setupIdx > Len(SetupSteps(trainer))
    /\ pc' = "for_epoch"
    /\ UNCHANGED <<inputs, readIdx, setupIdx, epoch, batch, loss, epoch_loss, grad,
                   applied, params, printed, logged, epochLosses, calls, err>>

\* ---------------------------------------------------------------- the loops

\* Mutant of HasNext: the iterator stops one item early.
HasNextSkipsLast(i, n) == i + 2 < n

\* An iterator over n items that last yielded item i (-1: none yet) has a next item.
HasNext(i, n) == i + 1 < n

\* Mutant of EpochStartLoss: the accumulator is not reset.
EpochStartLossKept(prev) == prev

\* epoch_loss = 0 at the start of an epoch.
EpochStartLoss(prev) == Rat(0, 1)

\* for epoch in range(epochs): the next epoch starts, or the loop is left.
ForEpoch ==
    /\ pc = "for_epoch"
    /\ IF HasNext(epoch, epochs)
       THEN /\ epoch' = epoch + 1
            /\ batch' = -1
            /\ epochLosses' = <<>>
            /\ epoch_loss' = IF trainer = "classifier"
                             THEN EpochStartLoss(epoch_loss)
                             ELSE epoch_loss
            /\ pc' = "for_batch"
       ELSE /\ pc' = "evaluate"
            /\ UNCHANGED <<epoch, batch, epochLosses, epoch_loss>>
    /\ UNCHANGED <<inputs, readIdx, setupIdx, loss, grad, applied, params, printed,
                   logged, calls, err>>

\* The statements of an epoch that follow the batch loop, in program order.
EpochTail(t) ==
    IF t = "autoencoder" THEN <<"save", "log">> ELSE <<"divide", "log", "save">>

\* The position after statement s of the epoch tail.
TailNext(t, s) ==
    LET i == CHOOSE k \in DOMAIN EpochTail(t) : EpochTail(t)[k] = s
    IN  IF i < Len(EpochTail(t)) THEN EpochTail(t)[i + 1] ELSE "for_epoch"

\* for batch in train_loader: the next batch is taken, or the loop is left.
ForBatch ==
    /\ pc = "for_batch"
    /\ IF HasNext(batch, numBatches)
       THEN /\ batch' = batch + 1
            /\ pc' = "zero_grad"
       ELSE /\ pc' = EpochTail(trainer)[1]
            /\ UNCHANGED batch
    /\ UNCHANGED <<inputs, readIdx, setupIdx, epoch, loss, epoch_loss, grad, applied,
                   params, printed, logged, epochLosses, calls, err>>

\* Mutant of ZeroGradOf: the gradients are left as they are.
ZeroGradKeeps(g) == g

\* optimizer.zero_grad(): the gradients of the optimizer's parameters are cleared.
ZeroGradOf(g) == <<>>

ZeroGrad ==
    /\ pc = "zero_grad"
    /\ grad' = ZeroGradOf(grad)
    /\ calls' = Append(calls, Event("zero_grad", epoch, batch))
    /\ pc' = "forward"
    /\ UNCHANGED <<inputs, readIdx, setupIdx, epoch, batch, loss, epoch_loss, applied,
                   params, printed, logged, epochLosses, err>>

\* The forward pass: autoencoder(img), or classifier(encoder(img)).
Forward ==
    /\ pc = "forward"
    /\ calls' = Append(calls, Event("forward", epoch, batch))
    /\ pc' = "criterion"
    /\ UNCHANGED <<inputs, readIdx, setupIdx, epoch, batch, loss, epoch_loss, grad,
                   applied, params, printed, logged, epochLosses, err>>

\* loss = criterion(...)
Criterion ==
    /\ pc = "criterion"
    /\ \E v \in Losses : loss' = <<v>>
    /\ calls' = Append(calls, Event("loss", epoch, batch))
    /\ pc' = "backward"
    /\ UNCHANGED <<inputs, readIdx, setupIdx, epoch, batch, epoch_loss, grad, applied,
                   params, printed, logged, epochLosses, err>>

\* loss.backward(): the gradient of this batch is added to .grad.
Backward ==
    /\ pc = "backward"
    /\ grad' = Append(grad, <<epoch, batch>>)
    /\ calls' = Append(calls, Event("backward", epoch, batch))
    /\ pc' = "step"
    /\ UNCHANGED <<inputs, readIdx, setupIdx, epoch, batch, loss, epoch_loss, applied,
                   params, printed, logged, epochLosses, err>>

\* optimizer.step(): the optimizer's parameters are updated from their .grad.
OptimizerStep ==
    /\ pc = "step"
    /\ applied' = grad
    /\ params' = [m \in DOMAIN params |->
                    IF m \in OptimizerParams(trainer) THEN params[m] + 1 ELSE params[m]]
    /\ calls' = Append(calls, Event("step", epoch, batch))
    /\ pc' = "after_step"
    /\ UNCHANGED <<inputs, readIdx, setupIdx, epoch, batch, loss, epoch_loss, grad,
                   printed, logged, epochLosses, err>>

\* The last statement of the batch: print(loss.item()) in train_autoencoder,
\* epoch_loss += loss.item() in train_classifier.
AfterStep ==
    /\ pc = "after_step"
    /\ IF trainer = "autoencoder"
       THEN /\ printed' = <<Rat(loss[1], 1)>>
            /\ UNCHANGED <<epoch_loss, epochLosses>>
       ELSE /\ epoch_loss' = RatAdd(epoch_loss, loss[1])
            /\ epochLosses' = Append(epochLosses, loss[1])
            /\ UNCHANGED printed
    /\ pc' = "for_batch"
    /\ UNCHANGED <<inputs, readIdx, setupIdx, epoch, batch, loss, grad, applied,
                   params, logged, calls, err>>

\* train_classifier: epoch_loss /= len(train_loader); bar.update(1); print(epoch_loss)
Divide ==
    /\ pc = "divide"
    /\ IF numBatches = 0
       THEN /\ pc' = "error"
            /\ err' = "ZeroDivisionError"
            /\ UNCHANGED <<epoch_loss, printed>>
       ELSE /\ epoch_loss' = RatDiv(epoch_loss, numBatches)
            /\ printed' = <<epoch_loss'>>
            /\ pc' = TailNext(trainer, "divide")
            /\ UNCHANGED err
    /\ UNCHANGED <<inputs, readIdx, setupIdx, epoch, batch, loss, grad, applied,
                   params, logged, epochLosses, calls>>

\* Mutant of ShouldSave: `if save_path is not None:`.
ShouldSaveUnlessNone(path) == path # None

\* if save_path: <model>.save(save_path, ...)
ShouldSave(path) == Truthy(path)

Save ==
    /\ pc = "save"
    /\ calls' = IF ShouldSave(save_path)
                THEN Append(calls, Event("save", epoch, batch))
                ELSE calls
    /\ pc' = TailNext(trainer, "save")
    /\ UNCHANGED <<inputs, readIdx, setupIdx, epoch, batch, loss, epoch_loss, grad,
                   applied, params, printed, logged, epochLosses, err>>

\* Mutant of ShouldLog: `if wandb_login is not None:`.
ShouldLogUnlessNone(login) == login # None

\* if wandb_login: wandb.log({...: loss.item()}) / wandb.log({...: epoch_loss})
ShouldLog(login) == Truthy(login)

Log ==
    /\ pc = "log"
    /\ IF ~ShouldLog(wandb_login)
       THEN /\ pc' = TailNext(trainer, "log")
            /\ UNCHANGED <<logged, calls, err>>
       ELSE IF trainer = "autoencoder" /\ loss = <<>>
       THEN /\ pc' = "error"
            /\ err' = "UnboundLocalError"
            /\ UNCHANGED <<logged, calls>>
       ELSE /\ logged' = IF trainer = "autoencoder"
                         THEN <<Rat(loss[1], 1)>>
                         ELSE <<epoch_loss>>
            /\ calls' = Append(calls, Event("wandb_log", epoch, batch))
            /\ pc' = TailNext(trainer, "log")
            /\ UNCHANGED err
    /\ UNCHANGED <<inputs, readIdx, setupIdx, epoch, batch, loss, epoch_loss, grad,
                   applied, params, printed, epochLosses>>

\* Mutant of ShouldEvaluate: the evaluation is unconditional.
ShouldEvaluateAlways(flag) == TRUE

\* if to_evaluate: evaluate_autoencoder(...) / evaluate_classifier(...)
ShouldEvaluate(flag) == flag

Evaluate ==
    /\ pc = "evaluate"
    /\ calls' = IF ShouldEvaluate(to_evaluate)
                THEN Append(calls, Event("evaluate", epoch, batch))
                ELSE calls
    /\ pc' = "done"
    /\ UNCHANGED <<inputs, readIdx, setupIdx, epoch, batch, loss, epoch_loss, grad,
                   applied, params, printed, logged, epochLosses, err>>

Next ==
    \/ MainLookup
    \/ MainCall
    \/ Construct
    \/ WandbInit
    \/ EnterLoop
    \/ ForEpoch
    \/ ForBatch
    \/ ZeroGrad
    \/ Forward
    \/ Criterion
    \/ Backward
    \/ OptimizerStep
    \/ AfterStep
    \/ Divide
    \/ Save
    \/ Log
    \/ Evaluate

Spec == Init /\ [][Next]_vars

\* ---------------------------------------------------------------- properties

\* The positions in `calls` of the calls of operation op.
Idx(op) == {i \in DOMAIN calls : calls[i].op = op}

Count(op) == Cardinality(Idx(op))

\* An Optional[str] parameter is set: neither None nor empty.
IsSet(s) == s \notin {None, ""}

\* Every call of b made so far was preceded by a call of a.
Before(a, b) == \A j \in Idx(b) : \E i \in Idx(a) : i < j

\* The sum of a sequence of numbers.
RECURSIVE SumSeq(_)
SumSeq(s) == IF s = <<>> THEN 0 ELSE Head(s) + SumSeq(Tail(s))

\* The optimizer steps made so far, in order.
StepEvents == SelectSeq(calls, LAMBDA c : c.op = "step")

\* C1: with a loader of at least one batch, the evaluation function is never
\* called when to_evaluate is false and exactly once when it is true, and that
\* call is the last call of the run: every optimizer step, save and log of all
\* `epochs` epochs precedes it (with epochs = 0 there is none); the train
\* function itself raises no error.
C1_EvaluateOnceAfterLoop ==
    numBatches >= 1 =>
        /\ Count("evaluate") <= 1
        /\ (~to_evaluate => Count("evaluate") = 0)
        /\ (pc = "done" => Count("evaluate") = IF to_evaluate THEN 1 ELSE 0)
        /\ \A i \in Idx("evaluate") :
              /\ i = Len(calls)
              /\ pc = "done"
              /\ Count("step") = epochs * numBatches
              /\ Count("save") = (IF IsSet(save_path) THEN epochs ELSE 0)
              /\ Count("wandb_log") = (IF IsSet(wandb_login) THEN epochs ELSE 0)
        /\ err \in {"none", "KeyError"}

C1_Witness ==
    /\ pc = "done"
    /\ to_evaluate
    /\ epochs = MaxEpochs
    /\ numBatches = MaxBatches
    /\ Count("evaluate") = 1
    /\ calls[Len(calls)].op = "evaluate"

\* C2: the optimizer steps are made in epoch order and, within an epoch, in
\* loader order, one per batch: the k-th step is the step of batch
\* (k-1) mod len(loader) of epoch (k-1) div len(loader); each batch gets its
\* forward pass and its step once; when an epoch ends (epoch + 1) * len(loader)
\* steps were made, and a complete run made epochs * len(loader) steps.
C2_OneStepPerBatchInOrder ==
    /\ \A k \in 1..Len(StepEvents) :
          /\ StepEvents[k].epoch = (k - 1) \div numBatches
          /\ StepEvents[k].batch = (k - 1) % numBatches
    /\ Count("forward") - Count("step") \in {0, 1}
    /\ (pc = "for_epoch" => Len(StepEvents) = (epoch + 1) * numBatches)
    /\ (pc = "done" => Len(StepEvents) = epochs * numBatches)

C2_Witness ==
    /\ pc = "done"
    /\ epochs = MaxEpochs
    /\ numBatches = MaxBatches
    /\ Len(StepEvents) = MaxEpochs * MaxBatches

\* C3: in train_classifier every optimizer step updates the classifier's
\* parameters and none ever updates the encoder's: the encoder's parameters
\* stay the ones passed in.
C3_EncoderFrozen ==
    trainer = "classifier" =>
        /\ params["encoder"] = 0
        /\ params["classifier"] = Count("step")

C3_Witness ==
    /\ trainer = "classifier"
    /\ pc = "done"
    /\ Count("step") = MaxEpochs * MaxBatches
    /\ Count("evaluate") = 1
    /\ params["encoder"] = 0

\* C4: with save_path None or empty no save is ever made; with save_path set
\* each epoch is saved at most once, the save of an epoch follows every step
\* of that epoch and precedes every step of a later one, every finished epoch
\* was saved, and a complete run made exactly `epochs` saves.
C4_OneSavePerEpoch ==
    /\ (~IsSet(save_path) => Count("save") = 0)
    /\ \A i, j \in Idx("save") : calls[i].epoch = calls[j].epoch => i = j
    /\ \A i \in Idx("save") : \A j \in Idx("step") :
          IF calls[j].epoch <= calls[i].epoch THEN j < i ELSE i < j
    /\ \A i \in Idx("save") :
          Cardinality({j \in Idx("step") : calls[j].epoch = calls[i].epoch}) = numBatches
    /\ (IsSet(save_path) /\ pc = "for_epoch" => Count("save") = epoch + 1)
    /\ (IsSet(save_path) /\ pc = "done" => Count("save") = epochs)

C4_Witness ==
    /\ pc = "done"
    /\ IsSet(save_path)
    /\ epochs = MaxEpochs
    /\ numBatches = MaxBatches
    /\ Count("save") = MaxEpochs

\* C5: with wandb_login None or empty neither wandb.init nor wandb.log is
\* called; with wandb_login set wandb.init is called once, before the first
\* optimizer step and before every wandb.log, and wandb.log is called once per
\* epoch, after every step of that epoch and before every step of a later one.
C5_OptionalLogging ==
    /\ (~IsSet(wandb_login) => Count("wandb_init") = 0 /\ Count("wandb_log") = 0)
    /\ Count("wandb_init") <= 1
    /\ (IsSet(wandb_login) /\ pc # "main" /\ setupIdx > Len(SetupSteps(trainer))
            => Count("wandb_init") = 1)
    /\ Before("wandb_init", "wandb_log")
    /\ (IsSet(wandb_login) => Before("wandb_init", "step"))
    /\ \A i, j \in Idx("wandb_log") : calls[i].epoch = calls[j].epoch => i = j
    /\ \A i \in Idx("wandb_log") : \A j \in Idx("step") :
          IF calls[j].epoch <= calls[i].epoch THEN j < i ELSE i < j
    /\ (IsSet(wandb_login) /\ pc = "for_epoch" => Count("wandb_log") = epoch + 1)
    /\ (IsSet(wandb_login) /\ pc = "done" => Count("wandb_log") = epochs)

C5_Witness ==
    /\ pc = "done"
    /\ IsSet(wandb_login)
    /\ epochs = MaxEpochs
    /\ numBatches = MaxBatches
    /\ Count("wandb_init") = 1
    /\ Count("wandb_log") = MaxEpochs

\* C6 as stated: in both trainers the dataset is constructed before the
\* loader, the loader before the trained model, the model before the
\* optimizer and the loss, and these before the first batch is processed.
C6_Original ==
    /\ Before("dataset", "loader")
    /\ Before("loader", "model")
    /\ Before("model", "optimizer")
    /\ Before("model", "criterion")
    /\ Before("optimizer", "zero_grad")
    /\ Before("criterion", "zero_grad")

\* C6, amended: train_autoencoder constructs the dataset, then the loader,
\* then the model; train_classifier constructs the trained model (the
\* classifier) first, then the dataset and the loader; in both the optimizer
\* and the loss are constructed after the model and the loader and before the
\* first batch is processed, and each object is constructed once.
C6_SetupOrder ==
    /\ Before("dataset", "loader")
    /\ (trainer = "autoencoder" => Before("loader", "model"))
    /\ (trainer = "classifier" => Before("model", "dataset"))
    /\ Before("model", "optimizer")
    /\ Before("loader", "optimizer")
    /\ Before("optimizer", "criterion")
    /\ Before("criterion", "zero_grad")
    /\ \A op \in {"dataset", "loader", "model", "optimizer", "criterion"} :
          Count(op) <= 1

C6_Witness ==
    /\ trainer = "classifier"
    /\ Count("zero_grad") >= 1
    /\ \E i \in Idx("model") : \E j \in Idx("loader") : i < j

\* C7: every optimizer step ends the sequence zero_grad, forward, loss,
\* backward, step of one batch, made in that order with nothing in between,
\* and the gradient a step applies is the gradient of its own batch alone.
C7_BatchOrderAndFreshGradient ==
    /\ \A i \in Idx("step") :
          /\ i >= 5
          /\ calls[i - 4].op = "zero_grad"
          /\ calls[i - 3].op = "forward"
          /\ calls[i - 2].op = "loss"
          /\ calls[i - 1].op = "backward"
          /\ \A k \in (i - 4)..i :
                calls[k].epoch = calls[i].epoch /\ calls[k].batch = calls[i].batch
    /\ (pc = "after_step" => applied = << <<epoch, batch>> >>)
    /\ Len(applied) <= 1

C7_Witness ==
    /\ pc = "after_step"
    /\ epoch = MaxEpochs - 1
    /\ batch = MaxBatches - 1
    /\ applied = << <<epoch, batch>> >>

\* C8: in train_classifier, with a loader of at least one batch, the value
\* printed at the end of an epoch, and logged as classifier_loss when
\* wandb_login is set, is the sum of the losses of that epoch's batches
\* divided by len(train_loader), whatever the earlier epochs' losses were.
C8_EpochLossIsMean ==
    (trainer = "classifier" /\ numBatches >= 1) =>
        /\ (pc \in {"log", "save"} =>
                /\ Len(epochLosses) = numBatches
                /\ printed = <<Rat(SumSeq(epochLosses), numBatches)>>)
        /\ (pc = "save" /\ IsSet(wandb_login) =>
                logged = <<Rat(SumSeq(epochLosses), numBatches)>>)

C8_Witness ==
    /\ trainer = "classifier"
    /\ pc = "save"
    /\ IsSet(wandb_login)
    /\ epoch = MaxEpochs - 1
    /\ numBatches = MaxBatches
    /\ epochLosses[1] # epochLosses[numBatches]
    /\ logged = <<Rat(SumSeq(epochLosses), numBatches)>>

\* C9 as stated: with a loader of zero batches and epochs >= 1 the train
\* function raises no error.
C9_EmptyLoaderCompletes ==
    (numBatches = 0 /\ epochs >= 1) =>
        err \notin {"ZeroDivisionError", "UnboundLocalError"}

\* C10 as stated: every key the classifier's main() reads from the parsed
\* arguments is a key its parser declares, so no lookup fails.
C10_ReadKeysDeclared ==
    (entry = "main" /\ trainer = "classifier") => err # "KeyError"

====
